---------------------------- MODULE Spec2Model ----------------------------
(***************************************************************************)
(* A model of the news agent of scholarly-publishing-news: one pipeline    *)
(* run of NewsAgent.run (agent.py) over the feed client (feeds.py), the    *)
(* relational store (database.py) and the feed publisher                   *)
(* (rss_generator.py), with the SIGALRM watchdog and user interrupts as    *)
(* environment steps.  The store and the published feed persist from one   *)
(* run to the next; everything else is rebuilt by each process.            *)
(***************************************************************************)
EXTENDS Integers, Sequences, FiniteSets, TLC

VARIABLES
    \* ---- the pipeline run (agent.py) ----
    pc,             \* position of the process inside NewsAgent.run
    alarm,          \* the SIGALRM watchdog: "unarmed", "armed", "fired", "cancelled"
    run_id,         \* self.run_id; 0 stands for None
    stats,          \* self.stats
    feed_i,         \* fetch_all_feeds: index of the feed being fetched
    all_articles,   \* fetch_all_feeds: the articles collected so far
    articles,       \* run(): the list returned by fetch_articles
    i,              \* run(): index of the article being processed
    article_id,     \* process_article: the id returned by insert_article
    interested,     \* process_article: the verdict returned by check_interest
    exc,            \* the exception propagating out of run(), "none" if none
    \* ---- durable state ----
    db_articles,    \* table articles: sequence of [url, processed], id = index
    db_summaries,   \* table summaries: sequence of [article_id, interested]
    db_runs,        \* table runs: sequence of [status, error_message]
    db_open,        \* the connection is open
    feed_xml,       \* docs/feed.xml: the links of its items, in order
    nruns,          \* number of runs started so far
    \* ---- the history of the current run ----
    known_at_start, \* the store's URL set when the run started
    cap_dropped,    \* the URLs the limit of fetch_articles has dropped so far
    extracted,      \* the URLs passed to extract_content, in order
    classified,     \* the URLs passed to check_interest, in order
    accepted,       \* the URLs check_interest classified as interested
    fired_at,       \* the position at which the watchdog fired, "none" if it has not
    started_after_fire, \* process_article was called after the watchdog fired
    event           \* the last step: "step", the exception it raised in the agent,
                    \* or "TimeoutError caught" if a callee caught the watchdog's
VARIABLES
    \* ---- one call of the classifier (llm.py) ----
    l_op,           \* the call in progress: "idle", "check_interest", "summarize"
    l_pc,           \* its position
    l_content,      \* the article_content argument: "str" or "None"
    l_url,          \* the article_url argument: "str" or "None"
    l_outer,        \* summarize: attempt of its own loop
    l_attempt,      \* _call_ollama: attempt
    l_last_error,   \* _call_ollama: last_error
    l_response,     \* the response _call_ollama returned
    l_result,       \* how the call ended, and the value it returned
    \* ---- its history ----
    l_requests,     \* requests sent to the model service during the call
    l_call,         \* the current invocation of _call_ollama:
                    \* [state, requests, errors, waits, error]
    l_failed,       \* a failure occurred inside the call
    l_parsed        \* an attempt yielded a parsable response

agent == <<pc, alarm, run_id, stats, feed_i, all_articles, articles, i,
          article_id, interested, exc, db_articles, db_summaries, db_runs,
          db_open, feed_xml, nruns, known_at_start, cap_dropped, extracted, classified,
          accepted, fired_at, started_after_fire, event>>

VARIABLES
    \* ---- one call of the feed client (feeds.py) ----
    f_op,           \* the call in progress: "idle", "fetch_feed",
                    \* "fetch_all_feeds", "deduplicate_articles"
    f_pc,           \* its position
    f_url,          \* fetch_feed: the feed_url argument
    f_served,       \* what each feed serves when it is requested
    f_i,            \* fetch_all_feeds: index of the feed being fetched
    f_all,          \* fetch_all_feeds: all_articles
    f_articles,     \* deduplicate_articles: the articles argument
    f_known,        \* deduplicate_articles: the existing_urls argument
    f_result,       \* how the call ended, and the value it returned
    \* ---- its history ----
    f_requests      \* the feed URLs requested over HTTP, in order

VARIABLES
    \* ---- one call of the content extractor (content.py) ----
    x_pc,           \* position inside extract_content
    x_url,          \* the kind of URL passed
    x_redirects,    \* redirects the HTTP client has followed
    x_outcome,      \* how the last request ended
    x_header,       \* the Content-Length header of the response
    x_result,       \* how the call ended, and the value it returned
    x_bytes_read,   \* bytes_read of _fetch_html
    x_chunks,       \* chunks of _fetch_html: the size of each chunk kept
    \* ---- its history ----
    x_contacted,    \* the kinds of address the HTTP client connected to
    x_arrived       \* the size of each chunk iter_content has yielded

VARIABLES
    \* ---- one call of the feed publisher (rss_generator.py) ----
    p_pc,           \* position inside generate_rss_feed
    p_new,          \* the new_articles argument
    p_existing,     \* the existing_items argument
    p_max,          \* the max_items argument
    p_k,            \* index of the loop in progress
    p_count,        \* count
    p_items,        \* the <item> elements of the channel, in document order
    p_file,         \* the items of the file at output_path
    p_result,       \* how the call ended, and the value it returned
    p_xml,          \* the file at output_path: its items as serialized
    p_prior,        \* the file as it was when existing_items were read from it
    p_round         \* publications since the feed was empty

VARIABLES
    \* ---- one call of ContentExtractor._truncate_text (content.py) ----
    t_pc,           \* "idle", "called" or "done"
    t_text,         \* the text argument
    t_result        \* the value returned

VARIABLES
    \* ---- one call of OllamaAgent._parse_json_response (llm.py) ----
    j_pc,           \* "idle", "called" or "done"
    j_response,     \* the response argument: its lines, each a list of tokens
    j_result        \* the value returned

classifier == <<l_op, l_pc, l_content, l_url, l_outer, l_attempt, l_last_error,
                l_response, l_result, l_requests, l_call, l_failed, l_parsed>>

feedclient == <<f_op, f_pc, f_url, f_served, f_i, f_all, f_articles, f_known,
                f_result, f_requests>>

reading == <<x_bytes_read, x_chunks, x_arrived>>

extractor == <<x_pc, x_url, x_redirects, x_outcome, x_header, x_result,
               x_contacted, reading>>

publisher == <<p_pc, p_new, p_existing, p_max, p_k, p_count, p_items, p_file,
               p_result, p_xml, p_prior, p_round>>

truncation == <<t_pc, t_text, t_result>>

parser == <<j_pc, j_response, j_result>>

\* The components that are also modelled on their own.
components == <<feedclient, extractor, publisher, truncation, parser>>

outside_feedclient == <<agent, classifier, extractor, publisher, truncation, parser>>
outside_extractor == <<agent, classifier, feedclient, publisher, truncation, parser>>
outside_publisher == <<agent, classifier, feedclient, extractor, truncation, parser>>
outside_truncation == <<agent, classifier, feedclient, extractor, publisher, parser>>
outside_parser == <<agent, classifier, feedclient, extractor, publisher, truncation>>

vars == <<agent, classifier, components>>

-----------------------------------------------------------------------------
(* Bounds of the model *)

\* The number of feeds of the allow-list (Config.ALLOWED_FEEDS has six).
NumFeeds == 3
\* The most redirects the HTTP client follows in the model (requests allows 30).
MaxRedirects == 2
\* The largest chunk iter_content yields, in the unit MAX_RESPONSE_BYTES is
\* counted in.
MaxChunk == 2
\* The longest text _truncate_text is called with, and self.max_length
\* (Config.MAX_ARTICLE_LENGTH), scaled down to a few characters.
MaxText == 5
max_length == 3
\* The most lines of a response of the model service, and the most tokens
\* of a line.
MaxLines == 3
MaxTokens == 3
\* ContentExtractor.MAX_RESPONSE_BYTES, scaled down to a few chunks.
MAX_RESPONSE_BYTES == 3
\* The longest new_articles and existing_items lists, and the largest
\* max_items, that generate_rss_feed is called with.
MaxNew == 2
MaxPrior == 3
MaxCap == 3
\* The most publications in a row, each reading the feed the one before wrote.
MaxPublications == 2
\* The most entries one feed returns.
MaxEntries == 1
\* The number of runs of the pipeline.
MaxRuns == 2
\* Config.MAX_ARTICLES_PER_RUN (50 in config.py), scaled down.
MAX_ARTICLES_PER_RUN == 2

(* Program constants *)
MIN_ARTICLE_LENGTH == 200
MAX_ARTICLE_AGE_DAYS == 0
MAX_RETRIES == 2

\* The article URLs the feeds may list.
URLS == {"u1", "u2"}

ALLOWED_FEEDS == 1..NumFeeds

SeqsUpTo(S, n) == UNION {[1..k -> S] : k \in 0..n}

Min(a, b) == IF a < b THEN a ELSE b

\* The length of the feed-provided description of an article: long enough for
\* one URL, too short for the other.
DescriptionLength(url) == IF url = "u1" THEN 250 ELSE 50

\* The age of an article in days, from its pub_date.
AgeDays(url) == IF url = "u1" THEN 1 ELSE 30


-----------------------------------------------------------------------------
(* The store: database.py *)

\* The URLs of the rows marked processed only.
get_existing_urls_processed(rows) ==
    {rows[k].url : k \in {m \in DOMAIN rows : rows[m].processed}}

\* Database.get_existing_urls: every URL of table articles.
get_existing_urls(rows) == {rows[k].url : k \in DOMAIN rows}

\* Database.insert_article: INSERT, or on the UNIQUE conflict the id of the
\* row that holds the URL.  Returns the table and the id.
insert_article(rows, url) ==
    IF url \in get_existing_urls(rows)
    THEN [rows |-> rows,
          id |-> CHOOSE k \in DOMAIN rows : rows[k].url = url]
    ELSE [rows |-> Append(rows, [url |-> url, processed |-> FALSE]),
          id |-> Len(rows) + 1]

\* Database.mark_article_processed: UPDATE articles SET processed = 1 WHERE id = ?
mark_article_processed(rows, id) ==
    [k \in DOMAIN rows |-> IF k = id THEN [rows[k] EXCEPT !.processed = TRUE]
                                     ELSE rows[k]]

\* Database.insert_summary: INSERT INTO summaries.
insert_summary(rows, id, verdict) ==
    Append(rows, [article_id |-> id, interested |-> verdict])

\* Database.start_run: INSERT INTO runs (started_at, status) VALUES (?, 'running').
start_run(rows) == Append(rows, [status |-> "running", error_message |-> "none"])

\* Database.complete_run: UPDATE runs SET status = ?, error_message = ? WHERE id = ?;
\* error_message "none" stands for None.
complete_run(rows, id, error_message) ==
    [k \in DOMAIN rows |->
        IF k = id
        THEN [status |-> IF error_message = "none" THEN "completed" ELSE "failed",
              error_message |-> error_message]
        ELSE rows[k]]

-----------------------------------------------------------------------------
(* The feed client: feeds.py *)

\* deduplicate_articles without its filter.
deduplicate_articles_unfiltered(arts, existing_urls) == arts

\* A filter that also drops the second entry of a URL.
RECURSIVE deduplicate_articles_distinct(_, _)
deduplicate_articles_distinct(arts, existing_urls) ==
    IF arts = <<>> THEN <<>>
    ELSE LET front == SubSeq(arts, 1, Len(arts) - 1)
             last == arts[Len(arts)]
         IN  IF last \in existing_urls \/ \E k \in DOMAIN front : front[k] = last
             THEN deduplicate_articles_distinct(front, existing_urls)
             ELSE Append(deduplicate_articles_distinct(front, existing_urls), last)

\* FeedFetcher.deduplicate_articles: the articles whose url is not known.
deduplicate_articles(arts, existing_urls) ==
    SelectSeq(arts, LAMBDA a : a \notin existing_urls)

-----------------------------------------------------------------------------
(* The feed publisher: rss_generator.py *)

\* The default of generate_rss_feed's max_items.
max_items == 50

\* An argument of a call: a list, another object, or not given at all.
List(v) == [kind |-> "list", val |-> v]
Object(name) == [kind |-> name, val |-> <<>>]
NotGiven == [kind |-> "missing", val |-> <<>>]

\* generate_rss_feed(new_articles, existing_items, max_items): the new articles
\* then the existing items, up to max_items.  A call that leaves out a required
\* parameter, or passes something that is not iterable, raises TypeError and
\* writes nothing.
generate_rss_feed(new_articles, existing_items, cap) ==
    IF existing_items.kind # "list" \/ new_articles.kind # "list"
    THEN [raised |-> TRUE, items |-> <<>>]
    ELSE [raised |-> FALSE,
          items |-> SubSeq(new_articles.val \o existing_items.val, 1,
                           Min(cap, Len(new_articles.val) + Len(existing_items.val)))]

-----------------------------------------------------------------------------
(* The agent: agent.py *)

\* NewsAgent.fetch_articles, after fetch_all_feeds: drop the known URLs, drop
\* the old articles if an age limit is configured, keep the first
\* MAX_ARTICLES_PER_RUN.
AgeFilter(arts) ==
    IF MAX_ARTICLE_AGE_DAYS > 0
    THEN SelectSeq(arts, LAMBDA a : AgeDays(a) <= MAX_ARTICLE_AGE_DAYS)
    ELSE arts

\* fetch_articles without its limit.
ApplyNoLimit(arts) == arts

ApplyLimit(arts) ==
    IF Len(arts) > MAX_ARTICLES_PER_RUN
    THEN SubSeq(arts, 1, MAX_ARTICLES_PER_RUN)
    ELSE arts

\* fetch_articles before its limit: the new articles, in feed order.
new_articles(fetched, rows) ==
    AgeFilter(deduplicate_articles(fetched, get_existing_urls(rows)))

fetch_articles(fetched, rows) == ApplyLimit(new_articles(fetched, rows))

\* The URLs of a list.
Urls(arts) == {arts[k] : k \in DOMAIN arts}

\* process_article without its except clause.
CaughtByNothing(e) == FALSE

\* process_article's "except Exception": the exceptions it catches.  The
\* watchdog's TimeoutError is an Exception; KeyboardInterrupt is not.
CaughtByProcessArticle(e) == e \in {"Exception", "TimeoutError"}

\* run()'s except clauses: where an exception raised in its try block goes.
RunHandler(e) ==
    CASE e = "TimeoutError" -> "except_timeout"
      [] e = "Exception" -> "except_exception"
      [] OTHER -> "finally"

\* The positions of run()'s try block, outside process_article.
TryPositions == {"start_run", "assign_run_id", "fetch_loop", "filter", "loop",
                 "complete", "cancel", "summary", "complete_early", "return_early"}
\* The positions inside process_article's try block.
ArticlePositions == {"pa_insert", "pa_extract", "pa_classify", "pa_save", "pa_mark"}

\* The arguments of the call generate_rss_feed(self.db, output_path=...).
PublishNewArticles == Object("Database")
PublishExistingItems == NotGiven

\* Leaving run()'s try block: its locals, and those of the calls it made, are dead.
Unwound ==
    /\ feed_i' = 1
    /\ all_articles' = <<>>
    /\ articles' = <<>>
    /\ i' = 1
    /\ article_id' = 0
    /\ interested' = FALSE

ZeroStats == [articles_fetched |-> 0, articles_processed |-> 0,
              articles_interesting |-> 0, errors |-> 0]

-----------------------------------------------------------------------------
(* The state after NewsAgent() is constructed, with an empty store and feed *)

history == <<known_at_start, cap_dropped, extracted, classified, accepted, fired_at,
             started_after_fire>>
durable == <<db_articles, db_summaries, db_runs, db_open, feed_xml, nruns>>
fetching == <<feed_i, all_articles>>
article == <<article_id, interested>>

AgentInit ==
    /\ pc = "setup"
    /\ alarm = "unarmed"
    /\ run_id = 0
    /\ stats = ZeroStats
    /\ feed_i = 1
    /\ all_articles = <<>>
    /\ articles = <<>>
    /\ i = 1
    /\ article_id = 0
    /\ interested = FALSE
    /\ exc = "none"
    /\ db_articles = <<>>
    /\ db_summaries = <<>>
    /\ db_runs = <<>>
    /\ db_open = TRUE
    /\ feed_xml = <<>>
    /\ nruns = 1
    /\ known_at_start = {}
    /\ cap_dropped = {}
    /\ extracted = <<>>
    /\ classified = <<>>
    /\ accepted = <<>>
    /\ fired_at = "none"
    /\ started_after_fire = FALSE
    /\ event = "step"

-----------------------------------------------------------------------------
(* run(), lines 204-223: arm the watchdog, open the run record, fetch *)

\* _setup_timeout: signal.alarm(MAX_RUNTIME_SECONDS).
Setup ==
    /\ pc = "setup"
    /\ alarm' = "armed"
    /\ pc' = "start_run"
    /\ event' = "step"
    /\ UNCHANGED <<run_id, stats, articles, i, exc, fetching, article, durable, history>>
    /\ UNCHANGED <<classifier, components>>

\* db.start_run(): the row is inserted and committed ...
StartRun ==
    /\ pc = "start_run"
    /\ db_runs' = start_run(db_runs)
    /\ pc' = "assign_run_id"
    /\ event' = "step"
    /\ UNCHANGED <<alarm, run_id, stats, articles, i, exc, fetching, article,
                   db_articles, db_summaries, db_open, feed_xml, nruns, history>>
    /\ UNCHANGED <<classifier, components>>

\* ... and its id is then stored in self.run_id.
AssignRunId ==
    /\ pc = "assign_run_id"
    /\ run_id' = Len(db_runs)
    /\ pc' = "fetch_loop"
    /\ event' = "step"
    /\ UNCHANGED <<alarm, stats, articles, i, exc, fetching, article, durable, history>>
    /\ UNCHANGED <<classifier, components>>

\* fetch_all_feeds: the loop over the allow-list; after the last feed,
\* fetch_articles records the number of articles fetched.
FetchLoop ==
    /\ pc = "fetch_loop"
    /\ IF feed_i \in ALLOWED_FEEDS
       THEN pc' = "fetch_feed" /\ stats' = stats
       ELSE /\ pc' = "filter"
            /\ stats' = [stats EXCEPT !.articles_fetched = Len(all_articles)]
    /\ event' = "step"
    /\ UNCHANGED <<alarm, run_id, articles, i, exc, fetching, article, durable, history>>
    /\ UNCHANGED <<classifier, components>>

\* fetch_feed returns the entries of the feed.
FetchFeed ==
    /\ pc = "fetch_feed"
    /\ \E entries \in SeqsUpTo(URLS, MaxEntries) :
          all_articles' = all_articles \o entries
    /\ feed_i' = feed_i + 1
    /\ pc' = "fetch_loop"
    /\ event' = "step"
    /\ UNCHANGED <<alarm, run_id, stats, articles, i, exc, article, durable, history>>
    /\ UNCHANGED <<classifier, components>>

\* fetch_feed catches a timeout, an HTTP error or a parse error and returns [].
FetchFeedFails ==
    /\ pc = "fetch_feed"
    /\ feed_i' = feed_i + 1
    /\ pc' = "fetch_loop"
    /\ event' = "step"
    /\ UNCHANGED <<alarm, run_id, stats, all_articles, articles, i, exc, article,
                   durable, history>>
    /\ UNCHANGED <<classifier, components>>

\* fetch_articles, lines 89-129, and run()'s test "if not articles".
Filter ==
    /\ pc = "filter"
    /\ articles' = fetch_articles(all_articles, db_articles)
    /\ cap_dropped' = cap_dropped \cup
                          (Urls(new_articles(all_articles, db_articles)) \ Urls(articles'))
    /\ pc' = IF articles' = <<>> THEN "complete_early" ELSE "loop"
    /\ event' = "step"
    /\ UNCHANGED <<alarm, run_id, stats, i, exc, fetching, article, durable,
                   known_at_start, extracted, classified, accepted, fired_at,
                   started_after_fire>>
    /\ UNCHANGED <<classifier, components>>

-----------------------------------------------------------------------------
(* run(), lines 225-230, and process_article *)

\* The for loop: call process_article with the next article, or leave the loop.
Loop ==
    /\ pc = "loop"
    /\ IF i <= Len(articles)
       THEN /\ pc' = "pa_insert"
            /\ started_after_fire' = (started_after_fire \/ alarm = "fired")
       ELSE /\ pc' = "complete"
            /\ UNCHANGED started_after_fire
    /\ event' = "step"
    /\ UNCHANGED <<alarm, run_id, stats, articles, i, exc, fetching, article, durable,
                   known_at_start, cap_dropped, extracted, classified, accepted, fired_at>>
    /\ UNCHANGED <<classifier, components>>

\* 1. db.insert_article.
PA_Insert ==
    /\ pc = "pa_insert"
    /\ LET r == insert_article(db_articles, articles[i])
       IN  db_articles' = r.rows /\ article_id' = r.id
    /\ pc' = "pa_extract"
    /\ event' = "step"
    /\ UNCHANGED <<alarm, run_id, stats, articles, i, exc, fetching, interested,
                   db_summaries, db_runs, db_open, feed_xml, nruns, history>>
    /\ UNCHANGED <<classifier, components>>

\* 2. extract_content returns None (0) or a text of at least the minimum
\* length; without a text the description is used; too short a content marks
\* the article processed and returns False.
PA_Extract ==
    /\ pc = "pa_extract"
    /\ extracted' = Append(extracted, articles[i])
    /\ \E page \in {0, MIN_ARTICLE_LENGTH} :
          LET content == IF page = 0 THEN DescriptionLength(articles[i]) ELSE page
          IN  IF content = 0 \/ content < MIN_ARTICLE_LENGTH
              THEN /\ db_articles' = mark_article_processed(db_articles, article_id)
                   /\ i' = i + 1
                   /\ pc' = "loop"
              ELSE /\ pc' = "pa_classify"
                   /\ UNCHANGED <<db_articles, i>>
    /\ event' = "step"
    /\ UNCHANGED <<alarm, run_id, stats, articles, exc, fetching, article,
                   db_summaries, db_runs, db_open, feed_xml, nruns,
                   known_at_start, cap_dropped, classified, accepted, fired_at,
                   started_after_fire>>
    /\ UNCHANGED <<classifier, components>>

\* 3-4. check_interest returns a verdict; an interesting article is counted.
PA_Classify ==
    /\ pc = "pa_classify"
    /\ classified' = Append(classified, articles[i])
    /\ \E verdict \in BOOLEAN :
          /\ interested' = verdict
          /\ accepted' = IF verdict THEN Append(accepted, articles[i]) ELSE accepted
          /\ stats' = IF verdict
                      THEN [stats EXCEPT !.articles_interesting = @ + 1]
                      ELSE stats
    /\ pc' = "pa_save"
    /\ event' = "step"
    /\ UNCHANGED <<alarm, run_id, articles, i, exc, fetching, article_id, durable,
                   known_at_start, cap_dropped, extracted, fired_at,
                   started_after_fire>>
    /\ UNCHANGED <<classifier, components>>

\* 5. db.insert_summary.
PA_Save ==
    /\ pc = "pa_save"
    /\ db_summaries' = insert_summary(db_summaries, article_id, interested)
    /\ pc' = "pa_mark"
    /\ event' = "step"
    /\ UNCHANGED <<alarm, run_id, stats, articles, i, exc, fetching, article,
                   db_articles, db_runs, db_open, feed_xml, nruns, history>>
    /\ UNCHANGED <<classifier, components>>

\* 6. db.mark_article_processed, count the article, return True.
PA_Mark ==
    /\ pc = "pa_mark"
    /\ db_articles' = mark_article_processed(db_articles, article_id)
    /\ stats' = [stats EXCEPT !.articles_processed = @ + 1]
    /\ i' = i + 1
    /\ pc' = "loop"
    /\ event' = "step"
    /\ UNCHANGED <<alarm, run_id, articles, exc, fetching, article,
                   db_summaries, db_runs, db_open, feed_xml, nruns,
                   known_at_start, cap_dropped, extracted, classified, accepted,
                   fired_at, started_after_fire>>
    /\ UNCHANGED <<classifier, components>>

\* An exception e raised inside process_article's try block: lines 193-196
\* count it and return False, unless the except clause does not catch e, and
\* then it leaves process_article and reaches run()'s except clauses.
ArticleFails(e) ==
    IF CaughtByProcessArticle(e)
    THEN /\ stats' = [stats EXCEPT !.errors = @ + 1]
         /\ i' = i + 1
         /\ pc' = "loop"
         /\ exc' = exc
         /\ UNCHANGED <<articles, fetching, article>>
    ELSE /\ pc' = RunHandler(e)
         /\ exc' = e
         /\ stats' = stats
         /\ Unwound

\* A step of process_article raises (a store error, an error of the
\* extraction, the call of a step itself).
PA_Raise ==
    /\ pc \in ArticlePositions
    /\ ArticleFails("Exception")
    /\ event' = "Exception"
    /\ UNCHANGED <<alarm, run_id, durable,
                   known_at_start, cap_dropped, extracted, classified, accepted,
                   fired_at, started_after_fire>>
    /\ UNCHANGED <<classifier, components>>

-----------------------------------------------------------------------------
(* run(), lines 214-223 and 232-245: the two normal ends of the try block *)

\* complete_run on the early return taken when there is nothing to process.
CompleteEarly ==
    /\ pc = "complete_early"
    /\ db_runs' = complete_run(db_runs, run_id, "none")
    /\ pc' = "return_early"
    /\ event' = "step"
    /\ UNCHANGED <<alarm, run_id, stats, articles, i, exc, fetching, article,
                   db_articles, db_summaries, db_open, feed_xml, nruns, history>>
    /\ UNCHANGED <<classifier, components>>

\* The return statement of line 223; the alarm is left as it is.
ReturnEarly ==
    /\ pc = "return_early"
    /\ pc' = "finally"
    /\ event' = "step"
    /\ Unwound
    /\ UNCHANGED <<alarm, run_id, stats, exc, durable, history>>
    /\ UNCHANGED <<classifier, components>>

\* complete_run after the loop.
Complete ==
    /\ pc = "complete"
    /\ db_runs' = complete_run(db_runs, run_id, "none")
    /\ pc' = "cancel"
    /\ event' = "step"
    /\ UNCHANGED <<alarm, run_id, stats, articles, i, exc, fetching, article,
                   db_articles, db_summaries, db_open, feed_xml, nruns, history>>
    /\ UNCHANGED <<classifier, components>>

\* _cancel_timeout: signal.alarm(0).
Cancel ==
    /\ pc = "cancel"
    /\ alarm' = IF alarm = "armed" THEN "cancelled" ELSE alarm
    /\ pc' = "summary"
    /\ event' = "step"
    /\ UNCHANGED <<run_id, stats, articles, i, exc, fetching, article, durable, history>>
    /\ UNCHANGED <<classifier, components>>

\* _print_summary.
Summary ==
    /\ pc = "summary"
    /\ pc' = "finally"
    /\ event' = "step"
    /\ Unwound
    /\ UNCHANGED <<alarm, run_id, stats, exc, durable, history>>
    /\ UNCHANGED <<classifier, components>>

\* A statement of the try block outside process_article raises an Exception:
\* a store error in start_run, get_existing_urls, complete_run or the
\* queries of _print_summary.
RaiseInRun ==
    /\ pc \in {"start_run", "filter", "complete", "summary"}
    /\ exc' = "Exception"
    /\ pc' = RunHandler("Exception")
    /\ event' = "Exception"
    /\ Unwound
    /\ UNCHANGED <<alarm, run_id, stats, durable, history>>
    /\ UNCHANGED <<classifier, components>>

-----------------------------------------------------------------------------
(* run(), lines 247-282: the except clauses and the finally block *)

\* except TimeoutError: complete_run(..., error_message="Timeout"); raise.
ExceptTimeout ==
    /\ pc = "except_timeout"
    /\ db_runs' = complete_run(db_runs, run_id, "Timeout")
    /\ pc' = "finally"
    /\ event' = "step"
    /\ UNCHANGED <<alarm, run_id, stats, articles, i, exc, fetching, article,
                   db_articles, db_summaries, db_open, feed_xml, nruns, history>>
    /\ UNCHANGED <<classifier, components>>

\* except Exception: if self.run_id: complete_run(..., error_message=str(e)); raise.
ExceptException ==
    /\ pc = "except_exception"
    /\ db_runs' = IF run_id # 0 THEN complete_run(db_runs, run_id, "error")
                                ELSE db_runs
    /\ pc' = "finally"
    /\ event' = "step"
    /\ UNCHANGED <<alarm, run_id, stats, articles, i, exc, fetching, article,
                   db_articles, db_summaries, db_open, feed_xml, nruns, history>>
    /\ UNCHANGED <<classifier, components>>

\* finally: generate_rss_feed(self.db, output_path="docs/feed.xml") inside
\* try/except Exception, the file being written only if the call does not
\* raise; then self.db.close(), and run() returns or re-raises exc.
Finally ==
    /\ pc = "finally"
    /\ LET r == generate_rss_feed(PublishNewArticles, PublishExistingItems, max_items)
       IN  feed_xml' = IF r.raised THEN feed_xml ELSE r.items
    /\ db_open' = FALSE
    /\ pc' = "done"
    /\ event' = "step"
    /\ UNCHANGED <<alarm, run_id, stats, articles, i, exc, fetching, article,
                   db_articles, db_summaries, db_runs, nruns, history>>
    /\ UNCHANGED <<classifier, components>>

-----------------------------------------------------------------------------
(* The watchdog: the SIGALRM handler raises TimeoutError in the main thread, *)
(* wherever it is                                                            *)

Fire(at) ==
    /\ alarm = "armed"
    /\ pc = at
    /\ alarm' = "fired"
    /\ fired_at' = at

\* In run()'s try block, outside every inner try: run()'s except clauses.
WatchdogInRun ==
    /\ \E at \in TryPositions : Fire(at)
    /\ event' = "TimeoutError"
    /\ exc' = "TimeoutError"
    /\ pc' = RunHandler("TimeoutError")
    /\ Unwound
    /\ UNCHANGED <<run_id, stats, durable,
                   known_at_start, cap_dropped, extracted, classified,
                   accepted, started_after_fire>>
    /\ UNCHANGED <<classifier, components>>

\* Inside fetch_feed's try block: "except Exception" (feeds.py 165-167) returns
\* [] and fetch_all_feeds goes on to the next feed.
WatchdogInFetchFeed ==
    /\ Fire("fetch_feed")
    /\ event' = "TimeoutError caught"
    /\ feed_i' = feed_i + 1
    /\ pc' = "fetch_loop"
    /\ UNCHANGED <<run_id, stats, all_articles, articles, i, exc, article, durable,
                   known_at_start, cap_dropped, extracted, classified,
                   accepted, started_after_fire>>
    /\ UNCHANGED <<classifier, components>>

\* Inside process_article's try block.
WatchdogInProcessArticle ==
    /\ \E at \in ArticlePositions : Fire(at)
    /\ event' = "TimeoutError"
    /\ ArticleFails("TimeoutError")
    /\ UNCHANGED <<run_id, durable, known_at_start, cap_dropped,
                   extracted, classified, accepted, started_after_fire>>
    /\ UNCHANGED <<classifier, components>>

\* Inside check_interest's try block: "except Exception" (llm.py 312-314)
\* returns (False, "Error: ...") and process_article goes on.
WatchdogInCheckInterest ==
    /\ Fire("pa_classify")
    /\ event' = "TimeoutError caught"
    /\ classified' = Append(classified, articles[i])
    /\ interested' = FALSE
    /\ pc' = "pa_save"
    /\ UNCHANGED <<run_id, stats, articles, i, exc, fetching, article_id, durable,
                   known_at_start, cap_dropped, extracted, accepted,
                   started_after_fire>>
    /\ UNCHANGED <<classifier, components>>

\* In an except clause of run(): the clause is left, the finally block runs.
WatchdogInHandler ==
    /\ Fire("except_exception")
    /\ event' = "TimeoutError"
    /\ exc' = "TimeoutError"
    /\ pc' = "finally"
    /\ UNCHANGED <<run_id, stats, articles, i, fetching, article, durable,
                   known_at_start, cap_dropped, extracted, classified,
                   accepted, started_after_fire>>
    /\ UNCHANGED <<classifier, components>>

\* Inside the finally block's try/except Exception: the TimeoutError is logged
\* and nothing is written; the store is then closed.
WatchdogInPublish ==
    /\ Fire("finally")
    /\ event' = "TimeoutError caught"
    /\ db_open' = FALSE
    /\ pc' = "done"
    /\ UNCHANGED <<run_id, stats, articles, i, exc, fetching, article,
                   db_articles, db_summaries, db_runs, feed_xml, nruns,
                   known_at_start, cap_dropped, extracted, classified, accepted,
                   started_after_fire>>
    /\ UNCHANGED <<classifier, components>>

\* At self.db.close(), after the publication: TimeoutError leaves run().
WatchdogInClose ==
    /\ Fire("finally")
    /\ event' = "TimeoutError"
    /\ LET r == generate_rss_feed(PublishNewArticles, PublishExistingItems, max_items)
       IN  feed_xml' = IF r.raised THEN feed_xml ELSE r.items
    /\ exc' = "TimeoutError"
    /\ pc' = "done"
    /\ UNCHANGED <<run_id, stats, articles, i, fetching, article,
                   db_articles, db_summaries, db_runs, db_open, nruns,
                   known_at_start, cap_dropped, extracted, classified, accepted,
                   started_after_fire>>
    /\ UNCHANGED <<classifier, components>>

-----------------------------------------------------------------------------
(* The user's interrupt: KeyboardInterrupt is no Exception, so no except     *)
(* clause of the program catches it before main()                            *)

\* In the try block or an except clause of run(): the finally block runs.
Interrupt ==
    /\ pc \in TryPositions \cup ArticlePositions
              \cup {"fetch_feed", "except_timeout", "except_exception"}
    /\ exc' = "KeyboardInterrupt"
    /\ pc' = "finally"
    /\ event' = "KeyboardInterrupt"
    /\ Unwound
    /\ UNCHANGED <<alarm, run_id, stats, durable, history>>
    /\ UNCHANGED <<classifier, components>>

\* In the finally block: KeyboardInterrupt leaves run(); nothing is written
\* and the store is not closed.
InterruptInFinally ==
    /\ pc = "finally"
    /\ exc' = "KeyboardInterrupt"
    /\ pc' = "done"
    /\ event' = "KeyboardInterrupt"
    /\ UNCHANGED <<alarm, run_id, stats, articles, i, fetching, article, durable, history>>
    /\ UNCHANGED <<classifier, components>>

-----------------------------------------------------------------------------
(* The next scheduled run: a new process over the same store and feed *)

NextRun ==
    /\ pc = "done"
    /\ nruns < MaxRuns
    /\ nruns' = nruns + 1
    /\ pc' = "setup"
    /\ alarm' = "unarmed"
    /\ run_id' = 0
    /\ stats' = ZeroStats
    /\ feed_i' = 1
    /\ all_articles' = <<>>
    /\ articles' = <<>>
    /\ i' = 1
    /\ article_id' = 0
    /\ interested' = FALSE
    /\ exc' = "none"
    /\ db_open' = TRUE
    /\ known_at_start' = get_existing_urls(db_articles)
    /\ UNCHANGED cap_dropped
    /\ extracted' = <<>>
    /\ classified' = <<>>
    /\ accepted' = <<>>
    /\ fired_at' = "none"
    /\ started_after_fire' = FALSE
    /\ event' = "step"
    /\ UNCHANGED <<db_articles, db_summaries, db_runs, feed_xml>>
    /\ UNCHANGED <<classifier, components>>

-----------------------------------------------------------------------------
(* reset_feed.py, run between two runs of the agent *)

\* path.write_text(EMPTY_FEED): the feed file becomes a channel without items;
\* the script opens no store.  It is run before a run that is still to come.
ResetFeed ==
    /\ pc = "done"
    /\ nruns < MaxRuns
    /\ feed_xml' = <<>>
    /\ event' = "reset_feed"
    /\ UNCHANGED <<pc, alarm, run_id, stats, articles, i, exc, fetching, article,
                   db_articles, db_summaries, db_runs, db_open, nruns, history>>
    /\ UNCHANGED <<classifier, components>>

-----------------------------------------------------------------------------
(* The classifier: llm.py.  One call of check_interest or summarize, with   *)
(* the model service answering each request as it pleases.                  *)

\* A JSON value of the response object, or the absence of the field.
Bool(b) == [type |-> "bool", val |-> b]
Str(x) == [type |-> "str", val |-> x]
Num(x) == [type |-> "num", val |-> x]
Null == [type |-> "null", val |-> ""]
Absent == [type |-> "absent", val |-> ""]

\* str.lower left out.
LowerLeftOut(x) == x

\* str.lower on the strings of the model.
Lower(x) ==
    CASE x = "YES" -> "yes"
      [] x = "True" -> "true"
      [] OTHER -> x

\* Python's truth value of a JSON value.
Truthy(v) ==
    CASE v.type = "bool" -> v.val = "true"
      [] v.type = "str" -> v.val # ""
      [] v.type = "num" -> v.val # "0"
      [] OTHER -> FALSE

\* check_interest, lines 297-305: parsed.get('interested', False) made a bool.
CoerceInterested(v) ==
    CASE v.type = "absent" -> FALSE
      [] v.type = "bool" -> v.val = "true"
      [] v.type = "str" -> Lower(v.val) \in {"true", "yes", "1"}
      [] OTHER -> Truthy(v)

\* check_interest, lines 298 and 306-307: parsed.get('reason', 'No reason
\* provided') made a string.
CoerceReason(v) ==
    CASE v.type = "absent" -> "No reason provided"
      [] v.type = "str" -> v.val
      [] OTHER -> IF Truthy(v) THEN v.val ELSE "No reason provided"

\* summarize, lines 353-356: parsed.get('summary', '') made a string (the
\* summaries of the model are shorter than MAX_SUMMARY_LENGTH).
CoerceSummary(v) ==
    CASE v.type = "absent" -> ""
      [] v.type = "str" -> v.val
      [] OTHER -> IF Truthy(v) THEN v.val ELSE ""

\* The text the model service answers with: not JSON at all ("invalid"), JSON
\* that Python takes for false such as null, 0, [] or {} ("falsy"), other JSON
\* that is no object ("array"), or an object with the fields given.
Response(kind, v_interested, v_reason, v_summary) ==
    [kind |-> kind, interested |-> v_interested, reason |-> v_reason,
     summary |-> v_summary]

NoResponse == Response("none", Absent, Absent, Absent)

Responses(op) ==
    {Response(k, Absent, Absent, Absent) : k \in {"invalid", "falsy", "array"}}
    \cup
    IF op = "check_interest"
    THEN {Response("object", a, b, Absent) :
             a \in {Bool("true"), Bool("false"), Str("yes"), Str("YES"),
                    Str("True"), Str("1"), Str("no"), Str("y"), Str(""),
                    Num("1"), Num("0"), Null, Absent},
             b \in {Str("topical"), Str(""), Null, Absent}}
    ELSE {Response("object", Absent, Absent, c) : c \in {Str("a summary"), Absent}}

\* The errors ollama.generate raises.
TransportErrors == {"ConnectionError", "ResponseError"}

\* The kinds of argument a caller passes for content and URL.
ArgKinds == {"str", "None"}

\* A parser that takes every response for parsed.
NotParsedNever(r) == FALSE

\* _parse_json_response and the test "if not parsed": the response is not
\* JSON, or is JSON that Python takes for false.
NotParsed(r) == r.kind \in {"invalid", "falsy"}

\* _build_interest_prompt, line 95: article_content[:2000] raises TypeError
\* when the content cannot be sliced.
BuildInterestPromptRaises(content) == content = "None"

\* _save_prompt_and_response, line 239: article_url.split raises
\* AttributeError when the URL is no string.
SaveRaises(url) == url = "None"

\* A _call_ollama that waits after every failure, the last one included.
ShouldWaitAlways(attempt) == TRUE

\* _call_ollama, line 177: wait only if another attempt follows.
ShouldWait(attempt) == attempt < MAX_RETRIES

\* _call_ollama, line 178: the exponential backoff.
Backoff(attempt) == 2 ^ attempt

\* _call_ollama and summarize, lines 164 and 334: range(1 + MAX_RETRIES).
InRange(attempt) == attempt < 1 + MAX_RETRIES

\* What one call of _call_ollama has done: the requests it sent, the errors
\* they raised, the waits it slept, and the error it raised itself.
NoCall == [state |-> "none", requests |-> 0, errors |-> <<>>, waits |-> <<>>,
           error |-> "none"]
NewCall == [NoCall EXCEPT !.state = "running"]

Running == [state |-> "running", interested |-> FALSE, text |-> ""]
Raised == [state |-> "raised", interested |-> FALSE, text |-> "TypeError"]
Returned(verdict, text) == [state |-> "returned", interested |-> verdict, text |-> text]
\* summarize's None.
None == "<None>"

ClassifierIdle ==
    /\ l_op = "idle"
    /\ l_pc = "idle"
    /\ l_content = "str"
    /\ l_url = "str"
    /\ l_outer = 0
    /\ l_attempt = 0
    /\ l_last_error = "none"
    /\ l_response = NoResponse
    /\ l_result = Running
    /\ l_requests = 0
    /\ l_call = NoCall
    /\ l_failed = FALSE
    /\ l_parsed = FALSE

\* A caller calls check_interest or summarize.
Call(op) ==
    /\ l_pc = "idle"
    /\ l_op' = op
    /\ l_pc' = "build"
    /\ \E c \in ArgKinds : l_content' = c
    /\ \E u \in ArgKinds : l_url' = u
    /\ UNCHANGED <<l_outer, l_attempt, l_last_error, l_response, l_result,
                   l_requests, l_call, l_failed, l_parsed>>
    /\ UNCHANGED <<agent, components>>

CallCheckInterest == Call("check_interest")

CallSummarize == Call("summarize")

\* check_interest, line 279, and summarize, line 332: the prompt is built
\* before the try block is entered.
BuildPrompt ==
    /\ l_pc = "build"
    /\ IF l_op = "check_interest" /\ BuildInterestPromptRaises(l_content)
       THEN /\ l_result' = Raised
            /\ l_failed' = TRUE
            /\ l_pc' = "done"
       ELSE /\ l_pc' = "call"
            /\ UNCHANGED <<l_result, l_failed>>
    /\ UNCHANGED <<l_op, l_content, l_url, l_outer, l_attempt, l_last_error,
                   l_response, l_requests, l_call, l_parsed>>
    /\ UNCHANGED <<agent, components>>

\* _call_ollama is entered: last_error = None, attempt = 0.
BeginCall ==
    /\ l_pc = "call"
    /\ l_call' = NewCall
    /\ l_attempt' = 0
    /\ l_last_error' = "none"
    /\ l_pc' = "request"
    /\ UNCHANGED <<l_op, l_content, l_url, l_outer, l_response, l_result,
                   l_requests, l_failed, l_parsed>>
    /\ UNCHANGED <<agent, components>>

\* ollama.generate answers: _call_ollama returns response['response'].
RequestSucceeds ==
    /\ l_pc = "request"
    /\ \E r \in Responses(l_op) : l_response' = r
    /\ l_requests' = l_requests + 1
    /\ l_call' = [l_call EXCEPT !.requests = @ + 1, !.state = "returned"]
    /\ l_pc' = "save"
    /\ UNCHANGED <<l_op, l_content, l_url, l_outer, l_attempt, l_last_error,
                   l_result, l_failed, l_parsed>>
    /\ UNCHANGED <<agent, components>>

\* ollama.generate raises: lines 175-185.
RequestFails ==
    /\ l_pc = "request"
    /\ \E e \in TransportErrors : l_last_error' = e
    /\ l_requests' = l_requests + 1
    /\ l_call' = [l_call EXCEPT !.requests = @ + 1, !.errors = Append(@, l_last_error')]
    /\ l_pc' = IF ShouldWait(l_attempt) THEN "sleep" ELSE "next_attempt"
    /\ UNCHANGED <<l_op, l_content, l_url, l_outer, l_attempt, l_response,
                   l_result, l_failed, l_parsed>>
    /\ UNCHANGED <<agent, components>>

\* time.sleep(wait), line 183.
Sleep ==
    /\ l_pc = "sleep"
    /\ l_call' = [l_call EXCEPT !.waits = Append(@, Backoff(l_attempt))]
    /\ l_pc' = "next_attempt"
    /\ UNCHANGED <<l_op, l_content, l_url, l_outer, l_attempt, l_last_error,
                   l_response, l_result, l_requests, l_failed, l_parsed>>
    /\ UNCHANGED <<agent, components>>

\* summarize's loop goes on with its next attempt (after "continue", line 351,
\* or after the except clause, lines 366-367), or ends and returns None.
SummarizeContinues ==
    IF InRange(l_outer + 1)
    THEN /\ l_outer' = l_outer + 1
         /\ l_pc' = "call"
         /\ l_result' = l_result
    ELSE /\ l_result' = Returned(FALSE, None)
         /\ l_pc' = "done"
         /\ l_outer' = l_outer

\* An exception inside the try block of check_interest (lines 312-314) or of
\* summarize (lines 366-367).
Caught ==
    /\ l_failed' = TRUE
    /\ IF l_op = "check_interest"
       THEN /\ l_result' = Returned(FALSE, "Error")
            /\ l_pc' = "done"
            /\ l_outer' = l_outer
       ELSE SummarizeContinues

\* _call_ollama's loop: the next attempt, or after the last one "raise last_error".
NextAttempt ==
    /\ l_pc = "next_attempt"
    /\ IF InRange(l_attempt + 1)
       THEN /\ l_attempt' = l_attempt + 1
            /\ l_pc' = "request"
            /\ UNCHANGED <<l_call, l_result, l_failed, l_outer>>
       ELSE /\ l_call' = [l_call EXCEPT !.state = "raised", !.error = l_last_error]
            /\ l_attempt' = l_attempt
            /\ Caught
    /\ UNCHANGED <<l_op, l_content, l_url, l_last_error, l_response, l_requests,
                   l_parsed>>
    /\ UNCHANGED <<agent, components>>

\* _save_prompt_and_response writes the audit files.
SavePrompt ==
    /\ l_pc = "save"
    /\ ~SaveRaises(l_url)
    /\ l_pc' = "parse"
    /\ UNCHANGED <<l_op, l_content, l_url, l_outer, l_attempt, l_last_error,
                   l_response, l_result, l_requests, l_call, l_failed, l_parsed>>
    /\ UNCHANGED <<agent, components>>

\* _save_prompt_and_response raises: no string for a URL, or the files
\* cannot be written.
SavePromptFails ==
    /\ l_pc = "save"
    /\ Caught
    /\ UNCHANGED <<l_op, l_content, l_url, l_attempt, l_last_error, l_response,
                   l_requests, l_call, l_parsed>>
    /\ UNCHANGED <<agent, components>>

\* check_interest, lines 290-310: parse, coerce, return.
ParseInterest ==
    /\ l_pc = "parse"
    /\ l_op = "check_interest"
    /\ l_parsed' = ~NotParsed(l_response)
    /\ IF NotParsed(l_response)
       THEN /\ l_result' = Returned(FALSE, "Failed to parse LLM response")
            /\ l_failed' = TRUE
            /\ l_pc' = "done"
            /\ l_outer' = l_outer
       ELSE IF l_response.kind # "object"
            THEN Caught
            ELSE /\ l_result' = Returned(CoerceInterested(l_response.interested),
                                         CoerceReason(l_response.reason))
                 /\ l_pc' = "done"
                 /\ UNCHANGED <<l_failed, l_outer>>
    /\ UNCHANGED <<l_op, l_content, l_url, l_attempt, l_last_error, l_response,
                   l_requests, l_call>>
    /\ UNCHANGED <<agent, components>>

\* summarize, lines 344-364: parse, and on a failure go on with the loop.
ParseSummary ==
    /\ l_pc = "parse"
    /\ l_op = "summarize"
    /\ l_parsed' = (l_parsed \/ ~NotParsed(l_response))
    /\ IF NotParsed(l_response)
       THEN SummarizeContinues /\ l_failed' = TRUE
       ELSE IF l_response.kind # "object"
            THEN Caught
            ELSE /\ l_result' = Returned(FALSE, CoerceSummary(l_response.summary))
                 /\ l_pc' = "done"
                 /\ UNCHANGED <<l_failed, l_outer>>
    /\ UNCHANGED <<l_op, l_content, l_url, l_attempt, l_last_error, l_response,
                   l_requests, l_call>>
    /\ UNCHANGED <<agent, components>>

\* The caller has the result; the classifier is ready for the next call.
Return ==
    /\ l_pc = "done"
    /\ l_op' = "idle"
    /\ l_pc' = "idle"
    /\ l_content' = "str"
    /\ l_url' = "str"
    /\ l_outer' = 0
    /\ l_attempt' = 0
    /\ l_last_error' = "none"
    /\ l_response' = NoResponse
    /\ l_result' = Running
    /\ l_requests' = 0
    /\ l_call' = NoCall
    /\ l_failed' = FALSE
    /\ l_parsed' = FALSE
    /\ UNCHANGED <<agent, components>>

-----------------------------------------------------------------------------
(* The feed client on its own: feeds.py.  One call of fetch_feed,           *)
(* fetch_all_feeds or deduplicate_articles.                                 *)

\* The feed URLs a caller may pass: those of the allow-list, and one that is
\* not on it.
FEED_URLS == ALLOWED_FEEDS \cup {0}

\* An allow-list check that lets every URL pass.
is_feed_allowed_always(feed_url) == TRUE

\* FeedFetcher._is_feed_allowed.
is_feed_allowed(feed_url) == feed_url \in ALLOWED_FEEDS

\* What a feed does when it is requested: it serves entries that parse
\* ("ok"), the request times out, the server answers with an error status, or
\* the parsing fails after the given entries were read.
Outcome(kind, entries) == [kind |-> kind, entries |-> entries]

Outcomes ==
    {Outcome(k, e) : k \in {"ok", "parse_error"}, e \in SeqsUpTo(URLS, MaxEntries)}
    \cup {Outcome("timeout", <<>>), Outcome("http_error", <<>>)}

\* A fetch_feed that returns the entries it had read when it failed.
fetch_feed_entries_read(outcome) == outcome.entries

\* fetch_feed, lines 114-167: the list it returns once the request was made:
\* the articles of the entries, or [] from any of its except clauses.
fetch_feed_returns(outcome) ==
    IF outcome.kind = "ok" THEN outcome.entries ELSE <<>>

\* What the feed behind a URL does; nothing is served outside the allow-list.
Serves(feed_url) ==
    IF feed_url \in DOMAIN f_served THEN f_served[feed_url]
    ELSE Outcome("http_error", <<>>)

FeedIdle == [state |-> "none", value |-> <<>>]
FeedReturned(v) == [state |-> "returned", value |-> v]
FeedRaised(e) == [state |-> "raised", value |-> e]

FeedClientIdle ==
    /\ f_op = "idle"
    /\ f_pc = "idle"
    /\ f_url = 0
    /\ f_served = [u \in ALLOWED_FEEDS |-> Outcome("ok", <<>>)]
    /\ f_i = 1
    /\ f_all = <<>>
    /\ f_articles = <<>>
    /\ f_known = {}
    /\ f_result = FeedIdle
    /\ f_requests = <<>>

\* A caller calls fetch_feed(feed_url).
CallFetchFeed ==
    /\ f_pc = "idle"
    /\ f_op' = "fetch_feed"
    /\ f_pc' = "check"
    /\ \E u \in FEED_URLS : f_url' = u
    /\ \E o \in Outcomes : f_served' = [u \in ALLOWED_FEEDS |-> o]
    /\ UNCHANGED <<f_i, f_all, f_articles, f_known, f_result, f_requests>>
    /\ UNCHANGED outside_feedclient

\* A caller calls fetch_all_feeds().
CallFetchAllFeeds ==
    /\ f_pc = "idle"
    /\ f_op' = "fetch_all_feeds"
    /\ f_pc' = "loop"
    /\ \E served \in [ALLOWED_FEEDS -> Outcomes] : f_served' = served
    /\ UNCHANGED <<f_url, f_i, f_all, f_articles, f_known, f_result, f_requests>>
    /\ UNCHANGED outside_feedclient

\* fetch_all_feeds, lines 177-187: the next feed of the allow-list, or the end.
AllFeedsLoop ==
    /\ f_pc = "loop"
    /\ IF f_i <= NumFeeds
       THEN /\ f_url' = f_i
            /\ f_pc' = "check"
            /\ UNCHANGED f_result
       ELSE /\ f_result' = FeedReturned(f_all)
            /\ f_pc' = "done"
            /\ UNCHANGED f_url
    /\ UNCHANGED <<f_op, f_served, f_i, f_all, f_articles, f_known, f_requests>>
    /\ UNCHANGED outside_feedclient

\* fetch_feed has ended, with a list or with an exception: the caller has its
\* result, or fetch_all_feeds extends all_articles (an exception is logged,
\* lines 181-184) and goes on.
FetchFeedEnds(result) ==
    IF f_op = "fetch_feed"
    THEN /\ f_result' = result
         /\ f_pc' = "done"
         /\ UNCHANGED <<f_i, f_all>>
    ELSE /\ f_all' = IF result.state = "returned" THEN f_all \o result.value ELSE f_all
         /\ f_i' = f_i + 1
         /\ f_pc' = "loop"
         /\ UNCHANGED f_result

\* fetch_feed, lines 109-110: the allow-list check.
CheckAllowed ==
    /\ f_pc = "check"
    /\ IF is_feed_allowed(f_url)
       THEN /\ f_pc' = "get"
            /\ UNCHANGED <<f_i, f_all, f_result>>
       ELSE FetchFeedEnds(FeedRaised("ValueError"))
    /\ UNCHANGED <<f_op, f_url, f_served, f_articles, f_known, f_requests>>
    /\ UNCHANGED outside_feedclient

\* fetch_feed, lines 114-167: the request, the parsing, the except clauses.
GetFeed ==
    /\ f_pc = "get"
    /\ f_requests' = Append(f_requests, f_url)
    /\ FetchFeedEnds(FeedReturned(fetch_feed_returns(Serves(f_url))))
    /\ UNCHANGED <<f_op, f_url, f_served, f_articles, f_known>>
    /\ UNCHANGED outside_feedclient

\* A caller calls deduplicate_articles(articles, existing_urls): the list
\* comprehension of lines 200-203 builds a new list.
CallDeduplicate ==
    /\ f_pc = "idle"
    /\ f_op' = "deduplicate_articles"
    /\ \E arts \in SeqsUpTo(URLS, NumFeeds), known \in SUBSET URLS :
          /\ f_articles' = arts
          /\ f_known' = known
    /\ f_pc' = "filter"
    /\ UNCHANGED <<f_url, f_served, f_i, f_all, f_result, f_requests>>
    /\ UNCHANGED outside_feedclient

Deduplicate ==
    /\ f_pc = "filter"
    /\ f_result' = FeedReturned(deduplicate_articles(f_articles, f_known))
    /\ f_pc' = "done"
    /\ UNCHANGED <<f_op, f_url, f_served, f_i, f_all, f_articles, f_known, f_requests>>
    /\ UNCHANGED outside_feedclient

\* The caller has the result; the feed client is ready for the next call.
FeedReturn ==
    /\ f_pc = "done"
    /\ f_op' = "idle"
    /\ f_pc' = "idle"
    /\ f_url' = 0
    /\ f_served' = [u \in ALLOWED_FEEDS |-> Outcome("ok", <<>>)]
    /\ f_i' = 1
    /\ f_all' = <<>>
    /\ f_articles' = <<>>
    /\ f_known' = {}
    /\ f_result' = FeedIdle
    /\ f_requests' = <<>>
    /\ UNCHANGED outside_feedclient

-----------------------------------------------------------------------------
(* The content extractor on its own: content.py.  One call of               *)
(* extract_content, with the name service and the web server answering as   *)
(* they please.                                                             *)

\* The kinds of URL a caller may pass: a scheme other than http(s), no host
\* name, a literal localhost name, or a host name to resolve.
UrlKinds == {"bad_scheme", "no_host", "localhost", "host"}

\* What a lookup of a host name gives: public addresses only, some private,
\* loopback, link-local or reserved address, or no address at all.
Lookups == {"public", "internal", "unresolvable"}

\* How a request ends: requests.Timeout, a connection error, an error status
\* (raise_for_status), a redirect the client follows, or a 200 response.
PageOutcomes == {"timeout", "connection_error", "http_error", "redirect", "ok"}

\* The Content-Length header of a response: none, a number within the limit,
\* a number over MAX_RESPONSE_BYTES, or text that is no number.
ContentLengths == {"absent", "within", "oversized", "malformed"}

\* The text _extract_text finds in a body that was read whole: none, text
\* shorter than min_length, or enough text.
Bodies == {"empty", "short", "long"}

\* The sizes of the chunks iter_content yields.
ChunkSizes == 1..MaxChunk

RECURSIVE Sum(_)
Sum(sizes) == IF sizes = <<>> THEN 0 ELSE Head(sizes) + Sum(Tail(sizes))

\* A test that lets one more unit through.
OverLimitByTwo(bytes_read) == bytes_read > MAX_RESPONSE_BYTES + 1

\* Line 104: if bytes_read > self.MAX_RESPONSE_BYTES.
OverLimit(bytes_read) == bytes_read > MAX_RESPONSE_BYTES

\* _validate_url, lines 38-68.
validate_url(url, lookup) == url = "host" /\ lookup = "public"

\* _fetch_html's except clauses, lines 113-118: what they catch.
CaughtByFetchHtml(e) == e \in {"timeout", "connection_error", "http_error"}

PageIdle == [state |-> "none", value |-> "None"]
PageReturned(v) == [state |-> "returned", value |-> v]
PageRaised(e) == [state |-> "raised", value |-> e]

ExtractorIdle ==
    /\ x_pc = "idle"
    /\ x_url = "host"
    /\ x_redirects = 0
    /\ x_outcome = "none"
    /\ x_header = "absent"
    /\ x_result = PageIdle
    /\ x_contacted = <<>>
    /\ x_bytes_read = 0
    /\ x_chunks = <<>>
    /\ x_arrived = <<>>

\* A caller calls extract_content(url).
CallExtractContent ==
    /\ x_pc = "idle"
    /\ \E u \in UrlKinds : x_url' = u
    /\ x_pc' = "validate"
    /\ UNCHANGED <<x_redirects, x_outcome, x_header, x_result, x_contacted>>
    /\ UNCHANGED reading
    /\ UNCHANGED outside_extractor

\* _fetch_html, lines 79-80: the URL is validated against the addresses its
\* host name resolves to now.
ValidateUrl ==
    /\ x_pc = "validate"
    /\ \E lookup \in Lookups :
          IF validate_url(x_url, lookup)
          THEN /\ x_pc' = "get"
               /\ UNCHANGED <<x_result, x_outcome>>
          ELSE /\ x_result' = PageReturned("None")
               /\ x_outcome' = "unsafe"
               /\ x_pc' = "done"
    /\ UNCHANGED <<x_url, x_redirects, x_header, x_contacted>>
    /\ UNCHANGED reading
    /\ UNCHANGED outside_extractor

\* requests.get, lines 83-90: the HTTP client resolves the host name itself
\* and connects to the address it gets.
Connect ==
    /\ x_pc = "get"
    /\ \E lookup \in {"public", "internal"} : x_contacted' = Append(x_contacted, lookup)
    /\ x_pc' = "respond"
    /\ UNCHANGED <<x_url, x_redirects, x_outcome, x_header, x_result>>
    /\ UNCHANGED reading
    /\ UNCHANGED outside_extractor

\* The request ends: an exception of requests (caught, lines 113-118), a
\* redirect that the client follows to wherever it points, or a response.
Respond ==
    /\ x_pc = "respond"
    /\ \E o \in PageOutcomes :
          /\ x_outcome' = o
          /\ o = "redirect" => x_redirects < MaxRedirects
          /\ IF o = "redirect"
             THEN /\ x_redirects' = x_redirects + 1
                  /\ x_pc' = "get"
                  /\ UNCHANGED <<x_header, x_result>>
             ELSE IF CaughtByFetchHtml(o)
                  THEN /\ x_result' = PageReturned("None")
                       /\ x_pc' = "done"
                       /\ UNCHANGED <<x_header, x_redirects>>
                  ELSE /\ \E h \in ContentLengths : x_header' = h
                       /\ x_pc' = "length"
                       /\ UNCHANGED <<x_result, x_redirects>>
    /\ UNCHANGED <<x_url, x_contacted>>
    /\ UNCHANGED reading
    /\ UNCHANGED outside_extractor

\* _fetch_html, lines 94-98: int(content_length) raises ValueError on text
\* that is no number, and no except clause of _fetch_html catches it.
CheckContentLength ==
    /\ x_pc = "length"
    /\ CASE x_header = "malformed" ->
              /\ x_result' = PageRaised("ValueError")
              /\ x_pc' = "done"
         [] x_header = "oversized" ->
              /\ x_result' = PageReturned("None")
              /\ x_pc' = "done"
         [] OTHER ->
              /\ x_pc' = "read"
              /\ UNCHANGED x_result
    /\ UNCHANGED <<x_url, x_redirects, x_outcome, x_header, x_contacted>>
    /\ UNCHANGED reading
    /\ UNCHANGED outside_extractor

\* _fetch_html, lines 102-108: one pass of the loop over iter_content.  The
\* chunk is counted; over the limit the response is closed and None returned,
\* otherwise the chunk is kept.
ReadChunk ==
    /\ x_pc = "read"
    /\ \E size \in ChunkSizes :
          /\ x_arrived' = Append(x_arrived, size)
          /\ x_bytes_read' = x_bytes_read + size
          /\ IF OverLimit(x_bytes_read + size)
             THEN /\ x_result' = PageReturned("None")
                  /\ x_pc' = "done"
                  /\ UNCHANGED x_chunks
             ELSE /\ x_chunks' = Append(x_chunks, size)
                  /\ UNCHANGED <<x_result, x_pc>>
    /\ UNCHANGED <<x_url, x_redirects, x_outcome, x_header, x_contacted>>
    /\ UNCHANGED outside_extractor

\* _fetch_html, line 111, and extract_content, lines 217-235: the stream has
\* ended, the chunks are joined, the text extracted and its length checked.
ReadPage ==
    /\ x_pc = "read"
    /\ \E body \in Bodies :
          x_result' = PageReturned(IF body = "long" /\ x_chunks # <<>>
                                   THEN "text" ELSE "None")
    /\ x_pc' = "done"
    /\ UNCHANGED <<x_url, x_redirects, x_outcome, x_header, x_contacted>>
    /\ UNCHANGED reading
    /\ UNCHANGED outside_extractor

\* The caller has the result; the extractor is ready for the next call.
ExtractReturn ==
    /\ x_pc = "done"
    /\ x_pc' = "idle"
    /\ x_url' = "host"
    /\ x_redirects' = 0
    /\ x_outcome' = "none"
    /\ x_header' = "absent"
    /\ x_result' = PageIdle
    /\ x_contacted' = <<>>
    /\ x_bytes_read' = 0
    /\ x_chunks' = <<>>
    /\ x_arrived' = <<>>
    /\ UNCHANGED outside_extractor

-----------------------------------------------------------------------------
(* The feed publisher on its own: rss_generator.py.  One call of            *)
(* generate_rss_feed.                                                       *)

\* Texts are sequences of characters.
\* The accepted article of a URL, as generate_rss_feed reads it: url, title,
\* description, source.
ArticleOf(u) ==
    IF u = "u1"
    THEN [url |-> <<"u", "1">>, title |-> <<"R", "&", "D">>,
          description |-> <<"a", "<", "b">>, source |-> <<"s">>]
    ELSE [url |-> <<"u", "&", "2">>, title |-> <<"T">>,
          description |-> <<>>, source |-> <<>>]

ARTICLES == {ArticleOf(u) : u \in URLS}

\* The items carried forward from the current feed, as dicts with the same keys.
PRIOR_ITEMS ==
    ARTICLES \cup {[url |-> <<"p", "1">>, title |-> <<"P">>,
                    description |-> <<"x", "&", "y">>, source |-> <<"s">>]}

\* An item built from a dict whose title is lost.
ItemFromExistingUntitled(existing) == [existing EXCEPT !.title = <<>>]

\* Lines 78-93: the <item> built from a dict of existing_items.
ItemFromExisting(existing) ==
    [url |-> existing.url, title |-> existing.title,
     description |-> existing.description, source |-> existing.source]

\* Lines 50-71: the <item> built from an Article.
ItemFromArticle(a) ==
    [url |-> a.url, title |-> a.title, description |-> a.description,
     source |-> a.source]

\* ET.tostring, line 98: the characters &, < and > of a text are escaped.
EscapeChar(c) ==
    CASE c = "&" -> <<"&", "a", "m", "p", ";">>
      [] c = "<" -> <<"&", "l", "t", ";">>
      [] c = ">" -> <<"&", "g", "t", ";">>
      [] OTHER -> <<c>>

RECURSIVE EscapeText(_)
EscapeText(t) ==
    IF t = <<>> THEN <<>> ELSE EscapeChar(Head(t)) \o EscapeText(Tail(t))

\* Lines 101-106: the content between <description> and </description>, as
\* ET.tostring escaped it, is wrapped in a CDATA section; an empty description
\* is serialized as <description /> and left alone.
WrapInCdata(escaped) == [cdata |-> escaped # <<>>, raw |-> escaped]

\* Lines 96-111: one <item> of the document written.
SerializeItem(item) ==
    [title |-> EscapeText(item.title),
     link |-> EscapeText(item.url),
     description |-> WrapInCdata(EscapeText(item.description)),
     source |-> EscapeText(item.source),
     guid |-> EscapeText(item.url)]

StartsWith(t, prefix) ==
    Len(t) >= Len(prefix) /\ SubSeq(t, 1, Len(prefix)) = prefix

\* An XML parser on character data: entity references stand for their character.
RECURSIVE UnescapeText(_)
UnescapeText(x) ==
    IF x = <<>> THEN <<>>
    ELSE IF StartsWith(x, EscapeChar("&"))
         THEN <<"&">> \o UnescapeText(SubSeq(x, 6, Len(x)))
    ELSE IF StartsWith(x, EscapeChar("<"))
         THEN <<"<">> \o UnescapeText(SubSeq(x, 5, Len(x)))
    ELSE IF StartsWith(x, EscapeChar(">"))
         THEN <<">">> \o UnescapeText(SubSeq(x, 5, Len(x)))
    ELSE <<Head(x)>> \o UnescapeText(Tail(x))

\* The feed read back: per item its URL (from guid), title, description and
\* source; the content of a CDATA section is taken as it stands.
ParseItem(x) ==
    [url |-> UnescapeText(x.guid),
     title |-> UnescapeText(x.title),
     description |-> IF x.description.cdata THEN x.description.raw
                     ELSE UnescapeText(x.description.raw),
     source |-> UnescapeText(x.source)]

ParseFeed(xml) == [k \in DOMAIN xml |-> ParseItem(xml[k])]

\* A test that lets one item too many through.
CapReachedLate(count, cap) == count > cap

\* generate_rss_feed, lines 48 and 76: "if count >= max_items: break".
CapReached(count, cap) == count >= cap

PublishIdle == [state |-> "none", value |-> 0]
PublishReturned(v) == [state |-> "returned", value |-> v]

PublisherIdle ==
    /\ p_pc = "idle"
    /\ p_new = <<>>
    /\ p_existing = <<>>
    /\ p_max = 0
    /\ p_k = 1
    /\ p_count = 0
    /\ p_items = <<>>
    /\ p_file = <<>>
    /\ p_result = PublishIdle
    /\ p_xml = <<>>
    /\ p_prior = <<>>
    /\ p_round = 0

\* A caller calls generate_rss_feed(new_articles, existing_items, max_items=...):
\* lines 30-44 build the channel and set count = 0.
CallGenerateRssFeed ==
    /\ p_pc = "idle"
    /\ \E n \in SeqsUpTo(ARTICLES, MaxNew), e \in SeqsUpTo(PRIOR_ITEMS, MaxPrior),
          m \in 0..MaxCap :
          /\ p_new' = n
          /\ p_existing' = e
          /\ p_max' = m
    /\ p_pc' = "new"
    /\ UNCHANGED <<p_k, p_count, p_items, p_file, p_result, p_xml, p_prior, p_round>>
    /\ UNCHANGED outside_publisher

\* Lines 47-72: the loop over new_articles.
AddNewArticle ==
    /\ p_pc = "new"
    /\ IF p_k <= Len(p_new) /\ ~CapReached(p_count, p_max)
       THEN /\ p_items' = Append(p_items, ItemFromArticle(p_new[p_k]))
            /\ p_count' = p_count + 1
            /\ p_k' = p_k + 1
            /\ UNCHANGED p_pc
       ELSE /\ p_pc' = "existing"
            /\ p_k' = 1
            /\ UNCHANGED <<p_items, p_count>>
    /\ UNCHANGED <<p_new, p_existing, p_max, p_file, p_result, p_xml, p_prior, p_round>>
    /\ UNCHANGED outside_publisher

\* Lines 75-94: the loop over existing_items.
AddExistingItem ==
    /\ p_pc = "existing"
    /\ IF p_k <= Len(p_existing) /\ ~CapReached(p_count, p_max)
       THEN /\ p_items' = Append(p_items, ItemFromExisting(p_existing[p_k]))
            /\ p_count' = p_count + 1
            /\ p_k' = p_k + 1
            /\ UNCHANGED p_pc
       ELSE /\ p_pc' = "write"
            /\ UNCHANGED <<p_items, p_count, p_k>>
    /\ UNCHANGED <<p_new, p_existing, p_max, p_file, p_result, p_xml, p_prior, p_round>>
    /\ UNCHANGED outside_publisher

\* Lines 96-113: serialize, write the file, return count.
WriteFeed ==
    /\ p_pc = "write"
    /\ p_file' = p_items
    /\ p_xml' = [k \in DOMAIN p_items |-> SerializeItem(p_items[k])]
    /\ p_round' = p_round + 1
    /\ p_result' = PublishReturned(p_count)
    /\ p_pc' = "done"
    /\ UNCHANGED <<p_new, p_existing, p_max, p_k, p_count, p_items, p_prior>>
    /\ UNCHANGED outside_publisher

\* The caller has the count; the publisher is ready for the next call.
PublishReturn ==
    /\ p_pc = "done"
    /\ p_pc' = "idle"
    /\ p_new' = <<>>
    /\ p_existing' = <<>>
    /\ p_max' = 0
    /\ p_k' = 1
    /\ p_count' = 0
    /\ p_items' = <<>>
    /\ p_file' = <<>>
    /\ p_result' = PublishIdle
    /\ p_xml' = <<>>
    /\ p_prior' = <<>>
    /\ p_round' = 0
    /\ UNCHANGED outside_publisher

\* The next publication: existing_items are the items read back from the feed
\* the last one wrote, new_articles the articles accepted since.
CallRepublish ==
    /\ p_pc = "done"
    /\ p_round < MaxPublications
    /\ p_prior' = p_xml
    /\ p_existing' = ParseFeed(p_xml)
    /\ \E n \in SeqsUpTo(ARTICLES, MaxNew), m \in 0..MaxCap :
          /\ p_new' = n
          /\ p_max' = m
    /\ p_k' = 1
    /\ p_count' = 0
    /\ p_items' = <<>>
    /\ p_result' = PublishIdle
    /\ p_pc' = "new"
    /\ UNCHANGED <<p_file, p_xml, p_round>>
    /\ UNCHANGED outside_publisher

-----------------------------------------------------------------------------
(* Truncation on its own: ContentExtractor._truncate_text, content.py *)

\* The texts: words of the letter a, and spaces.
Texts == SeqsUpTo({"a", " "}, MaxText)

\* str.rfind(' '): the 0-based index of the last space, or -1.
rfind_space(text) ==
    LET at == {k \in DOMAIN text : text[k] = " "}
    IN  IF at = {} THEN -1 ELSE (CHOOSE k \in at : \A m \in at : m <= k) - 1

\* Lines 192-202.
truncate_text(text) ==
    IF Len(text) > max_length
    THEN LET truncated == SubSeq(text, 1, max_length)
             last_space == rfind_space(truncated)
         IN  (IF last_space > 0 THEN SubSeq(truncated, 1, last_space)
                                ELSE truncated) \o <<".", ".", ".">>
    ELSE text

TruncationIdle ==
    /\ t_pc = "idle"
    /\ t_text = <<>>
    /\ t_result = <<>>

\* A caller calls _truncate_text(text).
CallTruncateText ==
    /\ t_pc = "idle"
    /\ \E text \in Texts : t_text' = text
    /\ t_pc' = "called"
    /\ UNCHANGED t_result
    /\ UNCHANGED outside_truncation

TruncateText ==
    /\ t_pc = "called"
    /\ t_result' = truncate_text(t_text)
    /\ t_pc' = "done"
    /\ UNCHANGED t_text
    /\ UNCHANGED outside_truncation

\* The caller has the result.
TruncateReturn ==
    /\ t_pc = "done"
    /\ t_pc' = "idle"
    /\ t_text' = <<>>
    /\ t_result' = <<>>
    /\ UNCHANGED outside_truncation

-----------------------------------------------------------------------------
(* The response parser on its own: OllamaAgent._parse_json_response, llm.py *)

\* The tokens of a response: the fence markers ```json and ```, and the text
\* of one JSON object.  White space between the tokens of a line is left out.
Fences == {"fence_json", "fence"}
Tokens == Fences \cup {"J"}

\* A response is the list of its lines.
ResponseLines == SeqsUpTo(Tokens, MaxTokens)
ResponseTexts == SeqsUpTo(ResponseLines, MaxLines)

\* str.strip on a response: the empty lines at both ends go.
RECURSIVE StripLeft(_)
StripLeft(lines) ==
    IF lines # <<>> /\ Head(lines) = <<>> THEN StripLeft(Tail(lines)) ELSE lines

RECURSIVE StripRight(_)
StripRight(lines) ==
    IF lines # <<>> /\ lines[Len(lines)] = <<>>
    THEN StripRight(SubSeq(lines, 1, Len(lines) - 1))
    ELSE lines

Strip(lines) == StripRight(StripLeft(lines))

\* '\n'.join(lines) read as one list of tokens.
RECURSIVE Flatten(_)
Flatten(lines) ==
    IF lines = <<>> THEN <<>> ELSE Head(lines) \o Flatten(Tail(lines))

\* .replace('```json', '').replace('```', '').
RECURSIVE RemoveFences(_)
RemoveFences(tokens) ==
    IF tokens = <<>> THEN <<>>
    ELSE IF Head(tokens) \in Fences THEN RemoveFences(Tail(tokens))
    ELSE <<Head(tokens)>> \o RemoveFences(Tail(tokens))

\* Lines 202-205: a response that starts with a fence loses its first and its
\* last line.
WithoutFenceLines(lines) ==
    IF lines # <<>> /\ Head(lines)[1] \in Fences
    THEN SubSeq(lines, 2, Len(lines) - 1)
    ELSE lines

\* json.loads: the object if the text is one JSON object and nothing else;
\* JSONDecodeError, answered with None, otherwise.
json_loads(tokens) == IF tokens = <<"J">> THEN "object" ELSE "None"

\* Lines 199-216.
parse_json_response(response) ==
    json_loads(RemoveFences(Flatten(WithoutFenceLines(Strip(response)))))

ParserIdle ==
    /\ j_pc = "idle"
    /\ j_response = <<>>
    /\ j_result = "None"

\* A caller calls _parse_json_response(response).
CallParseJsonResponse ==
    /\ j_pc = "idle"
    /\ \E response \in ResponseTexts : j_response' = response
    /\ j_pc' = "called"
    /\ UNCHANGED j_result
    /\ UNCHANGED outside_parser

ParseJsonResponse ==
    /\ j_pc = "called"
    /\ j_result' = parse_json_response(j_response)
    /\ j_pc' = "done"
    /\ UNCHANGED j_response
    /\ UNCHANGED outside_parser

\* The caller has the result.
ParseReturn ==
    /\ j_pc = "done"
    /\ j_pc' = "idle"
    /\ j_response' = <<>>
    /\ j_result' = "None"
    /\ UNCHANGED outside_parser

-----------------------------------------------------------------------------
(* The specifications *)

ComponentsIdle ==
    /\ FeedClientIdle
    /\ ExtractorIdle
    /\ PublisherIdle
    /\ TruncationIdle
    /\ ParserIdle

Init == AgentInit /\ ClassifierIdle /\ ComponentsIdle

Next ==
    \/ Setup \/ StartRun \/ AssignRunId
    \/ FetchLoop \/ FetchFeed \/ FetchFeedFails \/ Filter
    \/ Loop \/ PA_Insert \/ PA_Extract \/ PA_Classify \/ PA_Save \/ PA_Mark
    \/ PA_Raise
    \/ CompleteEarly \/ ReturnEarly \/ Complete \/ Cancel \/ Summary \/ RaiseInRun
    \/ ExceptTimeout \/ ExceptException \/ Finally
    \/ WatchdogInRun \/ WatchdogInFetchFeed \/ WatchdogInProcessArticle
    \/ WatchdogInCheckInterest \/ WatchdogInHandler \/ WatchdogInPublish
    \/ WatchdogInClose
    \/ Interrupt \/ InterruptInFinally
    \/ NextRun \/ ResetFeed

\* The pipeline: runs of the agent.
Spec == Init /\ [][Next]_vars

NextClassifier ==
    \/ CallCheckInterest \/ CallSummarize \/ BuildPrompt \/ BeginCall
    \/ RequestSucceeds \/ RequestFails \/ Sleep \/ NextAttempt
    \/ SavePrompt \/ SavePromptFails \/ ParseInterest \/ ParseSummary
    \/ Return

\* The classifier: calls of check_interest and summarize.
SpecClassifier == Init /\ [][NextClassifier]_vars

NextFeedClient ==
    \/ CallFetchFeed \/ CallFetchAllFeeds \/ AllFeedsLoop \/ CheckAllowed
    \/ GetFeed \/ CallDeduplicate \/ Deduplicate \/ FeedReturn

\* The feed client: calls of fetch_feed, fetch_all_feeds, deduplicate_articles.
SpecFeedClient == Init /\ [][NextFeedClient]_vars

-----------------------------------------------------------------------------
(* Properties of a run *)

NoDuplicates(seq) == \A k, l \in DOMAIN seq : seq[k] = seq[l] => k = l

\* The positions between the creation of the run record and complete_run.
MidRun == {"fetch_loop", "fetch_feed", "filter", "loop"} \cup ArticlePositions

\* C1: if the watchdog fires between run start and normal completion, also
\* while a feed is fetched or an article is extracted or classified, then no
\* further article is processed and the run record ends 'failed' with the
\* error message 'Timeout' (runs that another exception or an interrupt ends
\* are left aside).
C1_TimeoutFailsRun ==
    (pc = "done" /\ fired_at \in MidRun /\ exc \in {"none", "TimeoutError"}) =>
        /\ ~started_after_fire
        /\ db_runs[run_id].status = "failed"
        /\ db_runs[run_id].error_message = "Timeout"

\* C2: the run record is finalized exactly once: a record that complete_run
\* has set to 'completed' is never rewritten afterwards.
C2_CompletedNeverRewritten ==
    [][\A r \in DOMAIN db_runs :
          db_runs[r].status = "completed" => db_runs'[r] = db_runs[r]]_vars

\* C3: when run() exits, however it ends, every run record start_run created
\* has left 'running' and is 'completed' or 'failed'.
C3_RunRecordTerminal ==
    pc = "done" =>
        \A r \in DOMAIN db_runs : db_runs[r].status \in {"completed", "failed"}

\* C4: when run() finishes, the feed written at its end holds every article
\* check_interest classified as interested during the run, up to the item
\* cap, ahead of the carried-forward items.
C4_FeedHoldsAccepted ==
    (pc = "done" /\ exc = "none") =>
        LET n == Min(Len(accepted), max_items)
        IN  /\ Len(feed_xml) >= n
            /\ SubSeq(feed_xml, 1, n) = SubSeq(accepted, 1, n)

\* C5: an article whose URL the store knew when the run started is never
\* passed to content extraction or classification in that run.
C5_KnownNeverProcessed ==
    /\ \A k \in DOMAIN extracted : extracted[k] \notin known_at_start
    /\ \A k \in DOMAIN classified : classified[k] \notin known_at_start

\* A known URL was fetched again, and another article of the same batch is
\* being classified.
C5_Witness ==
    /\ pc = "pa_classify"
    /\ \E k \in DOMAIN all_articles : all_articles[k] \in known_at_start
    /\ Len(extracted) > 0

C7_ArticleExceptionContained ==
    /\ [][(pc \in ArticlePositions /\ event' \in {"Exception", "TimeoutError"}) =>
            /\ pc' = "loop"
            /\ exc' = "none"
            /\ stats'.errors = stats.errors + 1
            /\ i' = i + 1
            /\ articles' = articles]_vars
    /\ [](pc = "complete" => i = Len(articles) + 1)

\* After an article of the batch failed, a later one is being processed.
C7_Witness ==
    /\ pc \in ArticlePositions
    /\ stats.errors > 0
    /\ i > 1
\* The elements of a list that are not in a set, in the order of the list.
RECURSIVE Without(_, _)
Without(seq, set) ==
    IF seq = <<>> THEN <<>>
    ELSE (IF Head(seq) \in set THEN <<>> ELSE <<Head(seq)>>) \o Without(Tail(seq), set)

\* The new articles of a run: those fetched whose URL the store does not hold,
\* less the old ones when an age limit is configured, in feed order.
NewInFeedOrder ==
    LET fresh == Without(all_articles, {db_articles[k].url : k \in DOMAIN db_articles})
    IN  IF MAX_ARTICLE_AGE_DAYS > 0
        THEN SelectSeq(fresh, LAMBDA a : AgeDays(a) <= MAX_ARTICLE_AGE_DAYS)
        ELSE fresh

\* C17: at most MAX_ARTICLES_PER_RUN articles proceed to extraction and
\* classification in a run, and they are the first MAX_ARTICLES_PER_RUN of
\* the new articles, in original feed order.
C17_CapInFeedOrder ==
    /\ [](/\ Len(extracted) <= MAX_ARTICLES_PER_RUN
          /\ Len(classified) <= MAX_ARTICLES_PER_RUN
          /\ pc \in ArticlePositions =>
                /\ i <= Len(articles)
                /\ Len(extracted) <= i
                /\ \A k \in DOMAIN extracted :
                      \E j \in 1..i : articles[j] = extracted[k])
    /\ [][(pc = "filter" /\ pc' \in {"loop", "complete_early"}) =>
             articles' = SubSeq(NewInFeedOrder, 1,
                                Min(MAX_ARTICLES_PER_RUN, Len(NewInFeedOrder)))]_vars

C17_Witness ==
    /\ pc = "pa_classify"
    /\ Len(Without(all_articles, known_at_start)) > MAX_ARTICLES_PER_RUN
    /\ Len(extracted) = MAX_ARTICLES_PER_RUN
    /\ i = MAX_ARTICLES_PER_RUN

-----------------------------------------------------------------------------
(* Properties of the classifier *)

\* C8: check_interest never raises, whatever its arguments and whatever the
\* model service does: every failure inside the call ends in a returned pair
\* whose first element is False.
C8_CheckInterestNeverRaises ==
    (l_op = "check_interest" /\ l_pc = "done") =>
        /\ l_result.state = "returned"
        /\ l_failed => ~l_result.interested

\* C9: one call of _call_ollama sends at most MAX_RETRIES + 1 requests, returns
\* at the first successful response, waits 1, 2, 4, ... only between
\* consecutive attempts and never after the last one, and raises the last
\* error only when every attempt has failed.
C9_BoundedRetries ==
    /\ l_call.requests <= MAX_RETRIES + 1
    /\ Len(l_call.waits) <= MAX_RETRIES
    /\ Len(l_call.waits) <= Len(l_call.errors)
    /\ \A k \in DOMAIN l_call.waits : l_call.waits[k] = 2 ^ (k - 1)
    /\ l_call.state = "returned" =>
           /\ Len(l_call.errors) = l_call.requests - 1
           /\ Len(l_call.waits) = l_call.requests - 1
    /\ l_call.state = "raised" =>
           /\ l_call.requests = MAX_RETRIES + 1
           /\ Len(l_call.errors) = MAX_RETRIES + 1
           /\ l_call.error = l_call.errors[MAX_RETRIES + 1]

\* A call of _call_ollama whose every attempt failed, with two different
\* errors, has raised.
C9_Witness ==
    /\ l_call.state = "raised"
    /\ l_call.waits = <<1, 2>>
    /\ l_call.errors[1] # l_call.errors[MAX_RETRIES + 1]

\* C10: one call of summarize sends at most MAX_RETRIES + 1 requests to the
\* model service in total, transport failures and unparsable responses
\* counted together, and returns null when no attempt yields a parsable
\* response.
C10_SummarizeBoundedRequests ==
    l_op = "summarize" =>
        /\ l_requests <= MAX_RETRIES + 1
        /\ (l_pc = "done" /\ ~l_parsed) => l_result = Returned(FALSE, None)

\* The step of check_interest that parses the response l_response.
ParsingInterest == l_pc = "parse" /\ l_op = "check_interest"

\* C11: when the model's response is not valid JSON, check_interest returns
\* exactly (False, "Failed to parse LLM response"): it does not raise and it
\* sends no further request to the model.
C11_ParseFailureResult ==
    [][(ParsingInterest /\ l_response.kind = "invalid") =>
          /\ l_pc' = "done"
          /\ l_result' = Returned(FALSE, "Failed to parse LLM response")
          /\ l_requests' = l_requests
          /\ l_requests = l_call.requests]_vars

C11_Witness ==
    /\ l_op = "check_interest"
    /\ l_pc = "done"
    /\ l_response.kind = "invalid"
    /\ l_result = Returned(FALSE, "Failed to parse LLM response")
    /\ l_requests > 1

\* The strings of the model that equal "true", "yes" or "1" when case is ignored.
TrueStrings == {"yes", "YES", "True", "1"}

\* C12: the first element check_interest returns is a strict boolean: a
\* boolean `interested` is returned unchanged, a string is true exactly when
\* it is "true", "yes" or "1" ignoring case, a missing field is false; the
\* response {"interested": "yes", "reason": "topical"} yields (True, "topical").
C12_InterestedStrictBoolean ==
    /\ []((l_op = "check_interest" /\ l_result.state = "returned") =>
             l_result.interested \in BOOLEAN)
    /\ [][(ParsingInterest /\ l_response.kind = "object") =>
             LET v == l_response.interested
                 r == l_result'.interested
             IN  /\ l_result'.state = "returned"
                 /\ v.type = "bool" => r = (v.val = "true")
                 /\ v.type = "str" => r = (v.val \in TrueStrings)
                 /\ v.type = "absent" => r = FALSE
                 /\ (v = Str("yes") /\ l_response.reason = Str("topical")) =>
                        l_result' = Returned(TRUE, "topical")]_vars

C12_Witness ==
    /\ l_op = "check_interest"
    /\ l_pc = "done"
    /\ l_response = Response("object", Str("YES"), Str("topical"), Absent)
    /\ l_result = Returned(TRUE, "topical")

\* C13: for every parsable response the reasoning check_interest returns is a
\* string, and it is the placeholder text whenever the response's `reason` is
\* absent, null or the empty string.
C13_ReasonPlaceholder ==
    [][(ParsingInterest /\ l_response.kind = "object"
            /\ l_response.reason \in {Absent, Null, Str("")}) =>
          l_result'.text = "No reason provided"]_vars

NextExtractor ==
    \/ CallExtractContent \/ ValidateUrl \/ Connect \/ Respond
    \/ CheckContentLength \/ ReadChunk \/ ReadPage \/ ExtractReturn

\* The content extractor: calls of extract_content.
SpecExtractor == Init /\ [][NextExtractor]_vars

NextPublisher ==
    \/ CallGenerateRssFeed \/ AddNewArticle \/ AddExistingItem \/ WriteFeed
    \/ PublishReturn \/ CallRepublish

\* The feed publisher: calls of generate_rss_feed.
SpecPublisher == Init /\ [][NextPublisher]_vars

NextTruncation == CallTruncateText \/ TruncateText \/ TruncateReturn

\* Truncation: calls of _truncate_text.
SpecTruncation == Init /\ [][NextTruncation]_vars

NextParser == CallParseJsonResponse \/ ParseJsonResponse \/ ParseReturn

\* The response parser: calls of _parse_json_response.
SpecParser == Init /\ [][NextParser]_vars

-----------------------------------------------------------------------------
(* Properties of the feed client *)

\* C14: fetch_feed called with a URL that is not on the allow-list fails with
\* an error before any HTTP request is issued, so every feed request targets
\* an allow-listed URL.
C14_AllowListBeforeRequest ==
    /\ \A k \in DOMAIN f_requests : f_requests[k] \in ALLOWED_FEEDS
    /\ (f_op = "fetch_feed" /\ f_pc = "done" /\ f_url \notin ALLOWED_FEEDS) =>
           /\ f_result = FeedRaised("ValueError")
           /\ f_requests = <<>>

C14_Witness ==
    /\ f_op = "fetch_feed"
    /\ f_pc = "done"
    /\ f_url \notin ALLOWED_FEEDS
    /\ f_result.state = "raised"

\* The articles of the first n feeds of the allow-list, in list order, a feed
\* that failed counting for none.
RECURSIVE ArticlesOfFeeds(_)
ArticlesOfFeeds(n) ==
    IF n = 0 THEN <<>>
    ELSE ArticlesOfFeeds(n - 1) \o
         (IF f_served[n].kind = "ok" THEN f_served[n].entries ELSE <<>>)

C16_DeduplicatePure ==
    /\ []((f_op = "deduplicate_articles" /\ f_pc = "done") =>
             f_result = FeedReturned(Without(f_articles, f_known)))
    /\ [][f_pc = "filter" => (f_articles' = f_articles /\ f_known' = f_known)]_vars

C16_Witness ==
    /\ f_op = "deduplicate_articles"
    /\ f_pc = "done"
    /\ f_articles = <<"u1", "u2", "u1">>
    /\ f_known = {"u2"}
    /\ f_result.value = <<"u1", "u1">>

-----------------------------------------------------------------------------
(* Properties of the content extractor *)

\* C18: extract_content never fetches page content from an address that is
\* private, loopback, link-local or reserved, also when the host name resolves
\* to a public address at validation time and to an internal one when the
\* request is made, or when the server redirects the request elsewhere.
C18_NoInternalAddress ==
    \A k \in DOMAIN x_contacted : x_contacted[k] # "internal"

\* C19: every failure of the page fetch (unsafe URL, timeout, HTTP error
\* status, connection error, malformed or oversized Content-Length header)
\* makes extract_content return null rather than raise.
C19_FetchFailureGivesNull ==
    x_pc = "done" =>
        /\ x_result.state = "returned"
        /\ (\/ x_outcome \in {"unsafe", "timeout", "http_error", "connection_error"}
            \/ (x_outcome = "ok" /\ x_header \in {"malformed", "oversized"})) =>
               x_result = PageReturned("None")

-----------------------------------------------------------------------------
(* Properties of the feed publisher *)

\* C20: generate_rss_feed writes exactly min(max_items, |new_articles| +
\* |existing_items|) items, namely the first that many elements of
\* new_articles followed by existing_items, and returns that count.
C20_FeedItemCount ==
    p_pc = "done" =>
        LET n == Min(p_max, Len(p_new) + Len(p_existing))
        IN  /\ p_file = SubSeq(p_new \o p_existing, 1, n)
            /\ p_result = PublishReturned(n)

\* Two new articles and three prior items published with max_items = 3.
C20_Witness ==
    /\ p_pc = "done"
    /\ Len(p_new) = 2
    /\ Len(p_existing) = 3
    /\ p_max = 3
    /\ p_file = p_new \o <<p_existing[1]>>


C22_CarriedForward ==
    (p_pc = "done" /\ p_round >= 2) =>
        \A k \in DOMAIN p_prior :
            Len(p_new) + k <= p_max =>
                /\ Len(p_new) + k \in DOMAIN p_xml
                /\ p_xml[Len(p_new) + k].title = p_prior[k].title
                /\ p_xml[Len(p_new) + k].link = p_prior[k].link
                /\ p_xml[Len(p_new) + k].guid = p_prior[k].guid

C22_Witness ==
    /\ p_pc = "done"
    /\ p_round >= 2
    /\ p_new # <<>>
    /\ \E k \in DOMAIN p_prior :
          /\ Len(p_new) + k <= p_max
          /\ p_prior[k].title = EscapeText(<<"R", "&", "D">>)
          /\ p_xml[Len(p_new) + k].title = p_prior[k].title
    /\ \E k \in DOMAIN p_prior :
          /\ Len(p_new) + k <= p_max
          /\ p_prior[k].guid = EscapeText(<<"u", "&", "2">>)

\* C23: parsing the written feed back gives, for each item, the title, link,
\* description and source it was built from.
C23_RoundTrip ==
    p_pc = "done" =>
        \A k \in DOMAIN p_xml : ParseItem(p_xml[k]) = p_items[k]


\* C24: when run()'s try block has ended normally, by the early return or after
\* the summary, the watchdog alarm is no longer armed while the finally block
\* publishes and closes the store.
C24_DisarmedOnCompletion ==
    (pc = "finally" /\ exc = "none") => alarm # "armed"


\* C25: the run that starts right after reset_feed has run treats no URL as
\* already known.
C25_ResetClearsHistory ==
    [][(event = "reset_feed" /\ pc' = "setup") => known_at_start' = {}]_vars


\* C26: without a Content-Length header, the fetch returns None at the first
\* chunk that takes the byte count over MAX_RESPONSE_BYTES, reads no chunk
\* after it, and the chunks of a body it returns add up to the limit at most.
C26_ChunkedSizeLimit ==
    x_header = "absent" =>
        /\ x_bytes_read = Sum(x_arrived)
        /\ x_pc = "read" => x_bytes_read <= MAX_RESPONSE_BYTES
        /\ x_bytes_read > MAX_RESPONSE_BYTES =>
              /\ x_pc = "done"
              /\ x_result = PageReturned("None")
              /\ Sum(SubSeq(x_arrived, 1, Len(x_arrived) - 1)) <= MAX_RESPONSE_BYTES
        /\ (x_pc = "done" /\ x_result = PageReturned("text")) =>
              /\ x_chunks = x_arrived
              /\ Sum(x_chunks) <= MAX_RESPONSE_BYTES

C26_Witness ==
    /\ x_header = "absent"
    /\ x_pc = "done"
    /\ x_bytes_read = MAX_RESPONSE_BYTES + 1
    /\ Len(x_arrived) >= 2
    /\ x_result = PageReturned("None")


\* The lengths at which a prefix of text ends a word: the character there
\* is no space and the next one is.
WordEnds(text) ==
    {k \in 1..(Len(text) - 1) : text[k] # " " /\ text[k + 1] = " "}

\* C27: _truncate_text returns a text of at most max_length characters as it
\* is; of a longer text it returns the prefix that ends at the last word
\* boundary at or before max_length, followed by "..." (and some prefix of at
\* most max_length characters when there is no such boundary).
C27_TruncateAtWordBoundary ==
    t_pc = "done" =>
        IF Len(t_text) <= max_length
        THEN t_result = t_text
        ELSE LET ends == {k \in WordEnds(t_text) : k <= max_length}
             IN  \E k \in 0..max_length :
                    /\ t_result = SubSeq(t_text, 1, k) \o <<".", ".", ".">>
                    /\ ends # {} => (k \in ends /\ \A m \in ends : m <= k)

\* A response that is one JSON object inside a code fence, however its
\* tokens are laid out in lines.
IsFencedJson(response) ==
    \E f \in Fences : Flatten(response) = <<f, "J", "fence">>

\* C28: _parse_json_response returns the object of a response that is the
\* JSON object inside a code fence, as it does for the bare JSON object,
\* whether the fence markers stand on their own lines or on the line of the
\* object.
C28_FenceLayoutIrrelevant ==
    (j_pc = "done" /\ (IsFencedJson(j_response) \/ Flatten(j_response) = <<"J">>)) =>
        j_result = "object"


\* The articles process_article has returned for, in the run in progress.
Attempted == i - 1

C30_FailedKnownDroppedEligible ==
    [][/\ (pc \in ArticlePositions \ {"pa_insert"} /\ stats'.errors = stats.errors + 1) =>
              articles[i] \in get_existing_urls(db_articles')
       /\ get_existing_urls(db_articles) \subseteq get_existing_urls(db_articles')
       /\ pc' = "setup" => get_existing_urls(db_articles) \subseteq known_at_start'
       /\ pc = "filter" =>
              /\ Urls(articles') \cap get_existing_urls(db_articles) = {}
              /\ \A u \in cap_dropped' \ cap_dropped :
                    u \notin get_existing_urls(db_articles')
              /\ \A u \in cap_dropped :
                    (u \in Urls(all_articles) /\ u \notin get_existing_urls(db_articles))
                        => u \in Urls(new_articles(all_articles, db_articles))
       /\ Len(extracted') > Len(extracted) => extracted' = Append(extracted, articles[i])
       /\ Len(classified') > Len(classified) => classified' = Append(classified, articles[i])
       /\ get_existing_urls(db_articles') \ get_existing_urls(db_articles)
              \subseteq (IF pc = "pa_insert" THEN {articles[i]} ELSE {})
      ]_vars

\* In a second run: an article the store holds unprocessed was fetched again
\* and is not among the articles of the run, and an article the limit dropped
\* in the first run has been extracted.
C30_Witness ==
    /\ nruns = 2
    /\ pc = "pa_classify"
    /\ \E k \in DOMAIN db_articles :
          /\ ~db_articles[k].processed
          /\ db_articles[k].url \in known_at_start
          /\ db_articles[k].url \in Urls(all_articles)
          /\ db_articles[k].url \notin Urls(articles)
    /\ \E u \in cap_dropped : u \in Urls(extracted) /\ u \notin known_at_start

=============================================================================
